---- MODULE Spec2Model ----
(***************************************************************************)
(* Slack slash-command webhook relay (src/slack_backend.py).               *)
(*                                                                         *)
(* Strings are sequences of one-character strings; request bodies are      *)
(* sequences of byte runs.  An optional value (a header, an environment    *)
(* variable) is the empty tuple when absent and a one-element tuple        *)
(* holding the string when present.                                        *)
(***************************************************************************)
EXTENDS Integers, Sequences, FiniteSets, TLC

VARIABLES env, serving, now, req, pc, auth, resp, worker, calls

vars == <<env, serving, now, req, pc, auth, resp, worker, calls>>

(***************************************************************************)
(* Bounds of the model.                                                    *)
(***************************************************************************)
MaxRequests == 2
MaxTicks == 1

Reqs == 1..MaxRequests

\* time.time() when the process starts serving
Epoch == 1000

\* 60 * 5 seconds
Window == 60 * 5

(***************************************************************************)
(* Optional values and strings.                                            *)
(***************************************************************************)
None == << >>
Some(s) == << s >>
IsNone(o) == o = << >>
Val(o) == o[1]

\* Python truthiness of an optional string: None and "" are falsy
Falsy(o) == IsNone(o) \/ Val(o) = << >>

Abs(x) == IF x < 0 THEN -x ELSE x

Digits == {"0", "1", "2", "3", "4", "5", "6", "7", "8", "9"}

DigitVal(c) ==
  CASE c = "0" -> 0 [] c = "1" -> 1 [] c = "2" -> 2 [] c = "3" -> 3
    [] c = "4" -> 4 [] c = "5" -> 5 [] c = "6" -> 6 [] c = "7" -> 7
    [] c = "8" -> 8 [] c = "9" -> 9

RECURSIVE LStrip(_)
LStrip(s) == IF s # << >> /\ Head(s) = " " THEN LStrip(Tail(s)) ELSE s

RECURSIVE RStrip(_)
RStrip(s) ==
  IF s # << >> /\ s[Len(s)] = " " THEN RStrip(SubSeq(s, 1, Len(s) - 1)) ELSE s

Strip(s) == RStrip(LStrip(s))

RECURSIVE DigitsValue(_)
DigitsValue(s) ==
  IF s = << >> THEN 0
  ELSE 10 * DigitsValue(SubSeq(s, 1, Len(s) - 1)) + DigitVal(s[Len(s)])

\* int(timestamp): surrounding whitespace is stripped, one sign is allowed,
\* the rest must be decimal digits; anything else raises ValueError.
ParseInt(s) ==
  LET t == Strip(s)
      signed == t # << >> /\ Head(t) \in {"+", "-"}
      d == IF signed THEN Tail(t) ELSE t
      ok == d # << >> /\ \A i \in 1..Len(d) : d[i] \in Digits
  IN  [ok |-> ok,
       val |-> IF ~ok THEN 0
               ELSE IF signed /\ Head(t) = "-" THEN -DigitsValue(d)
               ELSE DigitsValue(d)]

(***************************************************************************)
(* UTF-8.  A body is a sequence of byte runs: an ASCII run decodes to      *)
(* itself, the run C3 A9 decodes to the character U+00E9, and the run FF   *)
(* is not valid UTF-8 (decode raises UnicodeDecodeError).                  *)
(***************************************************************************)
InvalidRuns == {"\\xff"}

DecodeRun(b) == IF b = "\\xc3\\xa9" THEN "U+00E9" ELSE b
EncodeChar(c) == IF c = "U+00E9" THEN "\\xc3\\xa9" ELSE c

Utf8Decode(bytes) ==
  [ok |-> \A i \in 1..Len(bytes) : bytes[i] \notin InvalidRuns,
   text |-> [i \in 1..Len(bytes) |-> DecodeRun(bytes[i])]]

Utf8Encode(text) == [i \in 1..Len(text) |-> EncodeChar(text[i])]

NonAscii == {"U+00E9"}
IsAscii(s) == \A i \in 1..Len(s) : s[i] \notin NonAscii

(***************************************************************************)
(* HMAC-SHA256 as an injective keyed function: the digest of (key, msg)    *)
(* is rendered as the key, a separator no key holds, and the message.      *)
(***************************************************************************)
HmacSha256Hex(key, msg) == key \o <<"|">> \o msg

\* variant: the timestamp is normalised before it is signed
SigBasestringStripped(timestamp, body) ==
  <<"v", "0", ":">> \o Strip(timestamp) \o <<":">> \o body

\* f"v0:{timestamp}:{request_body}"
SigBasestring(timestamp, body) == <<"v", "0", ":">> \o timestamp \o <<":">> \o body

\* 'v0=' + hmac.new(secret, basestring, sha256).hexdigest()
MySignature(secret, timestamp, body) ==
  <<"v", "0", "=">>
    \o HmacSha256Hex(Utf8Encode(secret), Utf8Encode(SigBasestring(timestamp, body)))

(***************************************************************************)
(* verify_slack_request.  An outcome says whether the call raised, what it *)
(* returned and what it logged.                                            *)
(***************************************************************************)
Returned(v, msg) == [raised |-> FALSE, result |-> v, log |-> msg]
Raised(msg) == [raised |-> TRUE, result |-> FALSE, log |-> msg]

\* variant: a request field can switch the bypass on
DevelopmentModeFromRequest(e, request) ==
  \/ e.devMode = Some("true")
  \/ \E i \in 1..Len(request.body) : request.body[i] = "DEVELOPMENT_MODE=true"

\* os.getenv('DEVELOPMENT_MODE') == 'true'
DevelopmentMode(e, request) == e.devMode = Some("true")

\* variant: only timestamps in the past are rejected
StaleOnlyPast(current_time, t) == current_time - t > Window

\* abs(current_time - int(timestamp)) > 60 * 5
Stale(current_time, t) == Abs(current_time - t) > Window

\* variant: signing_secret is None
SecretMissingOnlyUnset(signing_secret) == IsNone(signing_secret)

\* not signing_secret
SecretMissing(signing_secret) == Falsy(signing_secret)

\* hmac.compare_digest(my_signature, slack_signature): both ASCII strings,
\* otherwise TypeError; my_signature is hexadecimal, hence always ASCII.
CompareDigest(my_signature, slack_signature) ==
  IF ~IsAscii(slack_signature) THEN Raised("TypeError")
  ELSE Returned(my_signature = slack_signature, "compared")

\* the body of the try block
VerifyBody(request, e, current_time) ==
  IF DevelopmentMode(e, request) THEN Returned(TRUE, "Development mode enabled")
  ELSE IF Falsy(request.ts) THEN Returned(FALSE, "No timestamp in headers")
  ELSE LET t == ParseInt(Val(request.ts)) IN
  IF ~t.ok THEN Raised("ValueError")
  ELSE IF Stale(current_time, t.val) THEN Returned(FALSE, "Invalid timestamp")
  ELSE IF Falsy(request.sig) THEN Returned(FALSE, "No Slack signature in headers")
  ELSE LET b == Utf8Decode(request.body) IN
  IF ~b.ok THEN Raised("UnicodeDecodeError")
  ELSE IF SecretMissing(e.secret) THEN Returned(FALSE, "No signing secret found")
  ELSE IF IsNone(e.secret) THEN Raised("AttributeError")
  ELSE CompareDigest(MySignature(Val(e.secret), Val(request.ts), b.text),
                     Val(request.sig))

\* variant: no except clause
ExceptMissing(out) == out

\* except Exception: log and return False
ExceptReturnFalse(out) ==
  IF out.raised THEN Returned(FALSE, "Error in verify_slack_request") ELSE out

\* variant: verification is skipped when no secret is configured
VerifyFailOpen(request, e, current_time) ==
  IF Falsy(e.secret) THEN Returned(TRUE, "No signing secret, not verifying")
  ELSE ExceptReturnFalse(VerifyBody(request, e, current_time))

VerifySlackRequest(request, e, current_time) ==
  ExceptReturnFalse(VerifyBody(request, e, current_time))

(***************************************************************************)
(* Downstream collaborators.  A scenario fixes how each downstream call    *)
(* answers if it is issued; a call is logged with the request it made and  *)
(* whether it succeeded.                                                   *)
(***************************************************************************)
Call(api, request, arg, ok) == [api |-> api, req |-> request, arg |-> arg, ok |-> ok]

Outcome(text, log) == [text |-> text, calls |-> log]

\* response.raise_for_status(): any status but a 2xx raises HTTPError
HttpOk(status) == status \in {"200", "201"}

\* create_github_branch: everything raised inside is caught and turned into text
CreateGithubBranch(branch_name, sc) ==
  LET getMain == Call("github", "GET git/refs/heads/main", branch_name, HttpOk(sc.ghMain))
      getMaster == Call("github", "GET git/refs/heads/master", branch_name, HttpOk(sc.ghMaster))
      post == Call("github", "POST git/refs", branch_name, HttpOk(sc.ghPost))
      lookup == IF sc.ghMain = "404" THEN <<getMain, getMaster>> ELSE <<getMain>>
      status == IF sc.ghMain = "404" THEN sc.ghMaster ELSE sc.ghMain
  IN  IF sc.ghMain = "neterr" THEN Outcome("ERR GitHub API error", <<getMain>>)
      ELSE IF status = "neterr" THEN Outcome("ERR GitHub API error", lookup)
      ELSE IF status = "404" THEN Outcome("ERR Could not find main or master branch", lookup)
      ELSE IF ~HttpOk(status) THEN Outcome("ERR GitHub API error", lookup)
      ELSE IF sc.ghPost = "neterr" THEN Outcome("ERR GitHub API error", Append(lookup, post))
      ELSE IF sc.ghPost = "422exists" THEN Outcome("ERR Branch already exists", Append(lookup, post))
      ELSE IF sc.ghPost = "422other" THEN Outcome("ERR Error creating branch", Append(lookup, post))
      ELSE IF ~HttpOk(sc.ghPost) THEN Outcome("ERR GitHub API error", Append(lookup, post))
      ELSE Outcome("OK Branch created successfully", Append(lookup, post))

\* handle_chat_command
HandleChatCommand(user_message, sc) ==
  LET chat == Call("openai", "chat.completions.create", user_message, sc.openai = "ok")
  IN  IF sc.openai = "ok" THEN Outcome("OK chat reply", <<chat>>)
      ELSE Outcome("ERR OpenAI Error", <<chat>>)

\* create_stackblitz_project, with generate_code_with_chatgpt and
\* refine_code_with_claude, which re-raise into its except clause
CreateStackblitzProject(project_name, sc, e) ==
  LET gen == Call("openai", "chat.completions.create", project_name, sc.openai = "ok")
      refine == Call("claude", "messages.create", project_name, sc.claude = "ok")
      run == Call("stackblitz", "POST run", project_name, sc.stackblitz = "200")
  IN  IF sc.openai # "ok" THEN Outcome("ERR Error: OpenAI", <<gen>>)
      ELSE IF ~e.claudeKey THEN Outcome("ERR Error: CLAUDE_API_KEY is not set", <<gen>>)
      ELSE IF sc.claude = "error" THEN Outcome("ERR Error: Claude", <<gen, refine>>)
      ELSE IF sc.claude = "empty"
        THEN Outcome("ERR Error: Received empty response from Claude", <<gen, refine>>)
      ELSE IF sc.stackblitz = "neterr" THEN Outcome("ERR Error: StackBlitz", <<gen, refine, run>>)
      ELSE IF sc.stackblitz = "200"
        THEN Outcome("OK Project created successfully", <<gen, refine, run>>)
      ELSE Outcome("ERR Failed to create project", <<gen, refine, run>>)

\* the if / elif chain over command_text (a sequence of words, stripped)
RunCommand(command_text, sc, e) ==
  IF command_text # << >> /\ Head(command_text) = "create-branch" THEN
    IF Len(command_text) # 2 THEN Outcome("ERR Please provide a branch name", << >>)
    ELSE CreateGithubBranch(command_text[2], sc)
  ELSE IF command_text # << >> /\ Head(command_text) = "create-project" THEN
    IF Len(command_text) < 4 THEN Outcome("ERR Please provide all required details", << >>)
    ELSE CreateStackblitzProject(command_text[2], sc, e)
  ELSE IF Len(command_text) >= 2 /\ Head(command_text) = "chat" THEN
    HandleChatCommand(Tail(command_text), sc)
  ELSE Outcome("ERR Unknown command", << >>)

\* slack_client.chat_postMessage: fails without a bot token
PostMessage(channel_id, text, answer, e) ==
  Call("slack", "chat_postMessage", text, answer = "ok" /\ e.botToken)

Finished(log) == [raised |-> FALSE, calls |-> log]
Crashed(log) == [raised |-> TRUE, calls |-> log]

\* variant: the error post is not guarded by a try of its own
OnCommandErrorUnguarded(channel_id, log, sc, e) ==
  LET post == PostMessage(channel_id, "ERR Error: chat_postMessage failed", sc.post2, e)
  IN  IF post.ok THEN Finished(Append(log, post)) ELSE Crashed(Append(log, post))

\* the except clause of process_command: one attempt to post the error,
\* whose own failure is only logged
OnCommandError(channel_id, log, sc, e) ==
  Finished(Append(log, PostMessage(channel_id, "ERR Error: chat_postMessage failed", sc.post2, e)))

\* process_command
RunProcessCommand(command_text, channel_id, sc, e) ==
  IF Falsy(channel_id) THEN Finished(<< >>)
  ELSE LET out == RunCommand(command_text, sc, e)
           post == PostMessage(channel_id, out.text, sc.post1, e)
       IN  IF post.ok THEN Finished(Append(out.calls, post))
           ELSE OnCommandError(channel_id, Append(out.calls, post), sc, e)

(***************************************************************************)
(* Request bodies (byte runs) and what Flask parses out of them.           *)
(***************************************************************************)
BodyChat == <<"text=chat hi", "&channel_id=C1">>
BodyChatTampered == <<"text=chat ho", "&channel_id=C1">>
BodyBranch == <<"text=create-branch b1", "&channel_id=C1">>
BodyBranchNoName == <<"text=create-branch", "&channel_id=C1">>
BodyProject == <<"text=create-project p1 javascript demo", "&channel_id=C1">>
BodyUnknown == <<"text=deploy", "&channel_id=C1">>
BodyNoChannel == <<"text=chat hi">>
BodyNonAscii == <<"text=chat caf", "\\xc3\\xa9", "&channel_id=C1">>
BodyInvalidUtf8 == <<"text=chat caf", "\\xff", "&channel_id=C1">>
BodyDevMode == <<"DEVELOPMENT_MODE=true", "&channel_id=C1">>
BodyChallenge == <<"{\"type\": \"url_verification\", \"challenge\": \"c1\"}">>
BodyEvent == <<"{\"type\": \"event_callback\"}">>
BodyJsonList == <<"[]">>
BodyJsonBroken == <<"{">>

\* the words of the form field text after strip(), when the run starts it
TextOfRun(b) ==
  CASE b = "text=chat hi" -> <<"chat", "hi">>
    [] b = "text=chat ho" -> <<"chat", "ho">>
    [] b = "text=chat caf" -> <<"chat", "caf">>
    [] b = "text=create-branch b1" -> <<"create-branch", "b1">>
    [] b = "text=create-branch" -> <<"create-branch">>
    [] b = "text=create-project p1 javascript demo" ->
         <<"create-project", "p1", "javascript", "demo">>
    [] b = "text=deploy" -> <<"deploy">>
    [] OTHER -> << >>

RECURSIVE FormText(_)
FormText(body) ==
  IF body = << >> THEN << >>
  ELSE IF TextOfRun(Head(body)) # << >> THEN TextOfRun(Head(body))
  ELSE FormText(Tail(body))

\* request.form.get('channel_id')
FormChannel(body) ==
  IF \E i \in 1..Len(body) : body[i] = "&channel_id=C1" THEN Some(<<"C", "1">>) ELSE None

\* request.form is empty unless the body is form-encoded
RequestForm(request) ==
  IF request.ctype = "form"
    THEN [text |-> FormText(request.body), channel_id |-> FormChannel(request.body)]
    ELSE [text |-> << >>, channel_id |-> None]

\* request.json: BadRequest on a body that is not JSON; the value otherwise
RequestJson(request) ==
  IF request.body = BodyChallenge
    THEN [kind |-> "dict", type |-> "url_verification", challenge |-> "c1"]
  ELSE IF request.body = BodyEvent
    THEN [kind |-> "dict", type |-> "event_callback", challenge |-> ""]
  ELSE IF request.body = BodyJsonList
    THEN [kind |-> "list", type |-> "", challenge |-> ""]
  ELSE [kind |-> "invalid", type |-> "", challenge |-> ""]

(***************************************************************************)
(* HTTP responses of slack_handler.                                        *)
(***************************************************************************)
NoResponse == [status |-> 0, body |-> ""]
Forbidden == [status |-> 403, body |-> "Invalid request signature"]
Processing == [status |-> 200, body |-> "Processing request..."]
InternalError == [status |-> 500, body |-> "Internal server error"]
ChallengeEcho(c) == [status |-> 200, body |-> c]
\* Flask's own answer to an exception a view lets escape
Unhandled == [status |-> 500, body |-> "Flask: unhandled exception"]

NoRequest == [ts |-> None, sig |-> None, body |-> << >>, ctype |-> "none"]
\* what a request's verification gave, and the time.time() it read
NoAuth == [done |-> FALSE, raised |-> FALSE, result |-> FALSE, log |-> "", at |-> 0]

\* variant: the result of the verification is not acted on
RejectsNever(out) == FALSE

\* if not verify_slack_request(request)
Rejects(out) == ~out.result

\* the handler up to its first return: verification and the 403
AuthStep(request, e, current_time) ==
  LET out == VerifySlackRequest(request, e, current_time)
  IN  [auth |-> [done |-> TRUE, raised |-> out.raised, result |-> out.result,
                 log |-> out.log, at |-> current_time],
       resp |-> IF out.raised THEN Unhandled
                ELSE IF Rejects(out) THEN Forbidden
                ELSE NoResponse]

\* variant: the except clause answers 200 like the normal path
DispatchStepSwallow(request, threadStarts) ==
  LET j == RequestJson(request)
  IN  IF request.ctype = "json" /\ j.kind \in {"invalid", "list"}
        THEN [resp |-> Processing, start |-> FALSE]
      ELSE IF request.ctype = "json" /\ j.type = "url_verification"
        THEN [resp |-> ChallengeEcho(j.challenge), start |-> FALSE]
      ELSE IF ~threadStarts THEN [resp |-> Processing, start |-> FALSE]
      ELSE [resp |-> Processing, start |-> TRUE]

\* the try block of slack_handler after verification: what it answers and
\* whether it starts the worker thread
DispatchStep(request, threadStarts) ==
  LET j == RequestJson(request)
  IN  IF request.ctype = "json" /\ j.kind \in {"invalid", "list"}
        THEN [resp |-> InternalError, start |-> FALSE]
      ELSE IF request.ctype = "json" /\ j.type = "url_verification"
        THEN [resp |-> ChallengeEcho(j.challenge), start |-> FALSE]
      ELSE IF ~threadStarts THEN [resp |-> InternalError, start |-> FALSE]
      ELSE [resp |-> Processing, start |-> TRUE]

(***************************************************************************)
(* Inputs: configurations, requests and downstream scenarios.              *)
(***************************************************************************)
Key1 == <<"s", "1">>
Key2 == <<"s", "2">>

\* The sender's side: "v0=" + hex(HMAC-SHA256(secret, "v0:" + timestamp +
\* ":" + rawBody)) over the bytes of the body as sent
RefSignature(secret, timestamp, rawBody) ==
  <<"v", "0", "=">>
    \o HmacSha256Hex(Utf8Encode(secret), <<"v", "0", ":">> \o timestamp \o <<":">> \o rawBody)

TsText(t) == IF IsNone(t) THEN << >> ELSE Val(t)

JunkSignatures ==
  {None, Some(<< >>), Some(<<"v", "0", "=", "b", "a", "d">>), Some(<<"v", "0", "=", "U+00E9">>)}

\* every request with a timestamp of TS, a body of B (a body and its content
\* type), and a signature that is junk or was computed by RefSignature under
\* a key of K over the request as sent or over a variant of it
RequestsOver(TS, B, K, Junk, Padding, BAlt) ==
  UNION { { [ts |-> t, sig |-> sg, body |-> b.body, ctype |-> b.ctype] :
              sg \in Junk \cup
                 { Some(RefSignature(k, pad \o TsText(t), b2)) :
                     k \in K, pad \in Padding, b2 \in {b.body} \cup BAlt } } :
          t \in TS, b \in B }

Form(b) == [body |-> b, ctype |-> "form"]
Json(b) == [body |-> b, ctype |-> "json"]

VerifyTimestamps ==
  {None, Some(<< >>),
   Some(<<"7", "0", "0">>), Some(<<"0", "7", "0", "0">>), Some(<<"6", "9", "9">>),
   Some(<<"1", "0", "0", "0">>), Some(<<" ", "1", "0", "0", "0">>),
   Some(<<"1", "3", "0", "1">>), Some(<<"1", "2", "x">>), Some(<<"-", "7", "0", "0">>)}

VerifyRequests ==
  RequestsOver(VerifyTimestamps,
               {Form(BodyChat), Form(BodyNonAscii), Form(BodyInvalidUtf8), Form(BodyDevMode)},
               {<< >>, Key1, Key2}, JunkSignatures, {<< >>, <<"0">>}, {BodyChatTampered})

HandlerRequests ==
  RequestsOver({Some(<<"1", "0", "0", "0">>)},
               {Form(BodyChat), Json(BodyChallenge), Json(BodyJsonList)},
               {Key1}, {Some(<<"v", "0", "=", "b", "a", "d">>)}, {<< >>}, {})

WorkerRequests ==
  RequestsOver({Some(<<"1", "0", "0", "0">>)},
               {Form(BodyChat), Form(BodyBranch), Form(BodyBranchNoName), Form(BodyProject),
                Form(BodyUnknown), Form(BodyNoChannel), Json(BodyEvent), Json(BodyJsonBroken)},
               {Key1}, {None}, {<< >>}, {})

Env(D, S, B, C) == [devMode : D, secret : S, botToken : B, claudeKey : C]

VerifyEnvs ==
  Env({None, Some("true"), Some("false")}, {None, Some(<< >>), Some(Key1), Some(Key2)},
      {TRUE}, {TRUE})
HandlerEnvs == Env({None, Some("true")}, {None, Some(Key1)}, BOOLEAN, {TRUE})
WorkerEnvs == Env({None}, {Some(Key1)}, BOOLEAN, BOOLEAN)

AllScenarios ==
  [ghMain : {"200", "404", "500", "neterr"},
   ghMaster : {"200", "404", "500", "neterr"},
   ghPost : {"201", "422exists", "422other", "500", "neterr"},
   openai : {"ok", "error"},
   claude : {"ok", "empty", "error"},
   stackblitz : {"200", "500", "neterr"},
   post1 : {"ok", "error"},
   post2 : {"ok", "error"}]

\* every service answers, or every service fails
HandlerScenarios ==
  [ghMain : {"200"}, ghMaster : {"200"}, ghPost : {"201"}, openai : {"ok"},
   claude : {"ok"}, stackblitz : {"200"}, post1 : {"ok"}, post2 : {"ok"}]
  \cup
  [ghMain : {"neterr"}, ghMaster : {"neterr"}, ghPost : {"neterr"}, openai : {"error"},
   claude : {"error"}, stackblitz : {"neterr"}, post1 : {"error"}, post2 : {"error"}]

(***************************************************************************)
(* The state machine.                                                      *)
(***************************************************************************)
InitWith(E) ==
  /\ env \in E
  /\ serving = FALSE
  /\ now = Epoch
  /\ req = [r \in Reqs |-> NoRequest]
  /\ pc = [r \in Reqs |-> "idle"]
  /\ auth = [r \in Reqs |-> NoAuth]
  /\ resp = [r \in Reqs |-> NoResponse]
  /\ worker = [r \in Reqs |-> "none"]
  /\ calls = [r \in Reqs |-> << >>]

\* __main__: app.run, whatever the configuration holds
Main ==
  /\ ~serving
  /\ serving' = TRUE
  /\ UNCHANGED <<env, now, req, pc, auth, resp, worker, calls>>

\* the clock advances
Tick ==
  /\ now < Epoch + MaxTicks
  /\ now' = now + 1
  /\ UNCHANGED <<env, serving, req, pc, auth, resp, worker, calls>>

\* Flask hands a POST on /slack to slack_handler
Receive(r, R) ==
  /\ serving
  /\ pc[r] = "idle"
  /\ \E rq \in R : req' = [req EXCEPT ![r] = rq]
  /\ pc' = [pc EXCEPT ![r] = "received"]
  /\ UNCHANGED <<env, serving, now, auth, resp, worker, calls>>

\* slack_handler, lines 291-295
SlackHandlerVerify(r) ==
  /\ pc[r] = "received"
  /\ LET step == AuthStep(req[r], env, now)
     IN  /\ auth' = [auth EXCEPT ![r] = step.auth]
         /\ resp' = [resp EXCEPT ![r] = step.resp]
         /\ pc' = [pc EXCEPT ![r] = IF step.resp = NoResponse THEN "verified" ELSE "responded"]
  /\ UNCHANGED <<env, serving, now, req, worker, calls>>

\* slack_handler, lines 297-369
SlackHandlerDispatch(r) ==
  /\ pc[r] = "verified"
  /\ \E threadStarts \in BOOLEAN :
       LET step == DispatchStep(req[r], threadStarts)
       IN  /\ resp' = [resp EXCEPT ![r] = step.resp]
           /\ worker' = [worker EXCEPT ![r] = IF step.start THEN "started" ELSE "none"]
  /\ pc' = [pc EXCEPT ![r] = "responded"]
  /\ UNCHANGED <<env, serving, now, req, auth, calls>>

\* the worker thread: process_command, from start to end
ProcessCommand(r, S) ==
  /\ worker[r] = "started"
  /\ \E sc \in S :
       LET form == RequestForm(req[r])
           run == RunProcessCommand(form.text, form.channel_id, sc, env)
       IN  /\ calls' = [calls EXCEPT ![r] = run.calls]
           /\ worker' = [worker EXCEPT ![r] = IF run.raised THEN "crashed" ELSE "finished"]
  /\ UNCHANGED <<env, serving, now, req, pc, auth, resp>>

\* concurrent requests
Init == InitWith(HandlerEnvs)

Next ==
  \/ Main
  \/ Tick
  \/ \E r \in Reqs : Receive(r, HandlerRequests)
  \/ \E r \in Reqs : SlackHandlerVerify(r)
  \/ \E r \in Reqs : SlackHandlerDispatch(r)
  \/ \E r \in Reqs : ProcessCommand(r, HandlerScenarios)

Spec == Init /\ [][Next]_vars

\* one request at a time, over every input of verify_slack_request
VerifyInit == InitWith(VerifyEnvs)

VerifyNext ==
  \/ Main
  \/ Tick
  \/ Receive(1, VerifyRequests)
  \/ SlackHandlerVerify(1)

VerifySpec == VerifyInit /\ [][VerifyNext]_vars

\* one command at a time, over every answer of the downstream services
WorkerInit == InitWith(WorkerEnvs)

WorkerNext ==
  \/ Main
  \/ Receive(1, WorkerRequests)
  \/ SlackHandlerVerify(1)
  \/ SlackHandlerDispatch(1)
  \/ ProcessCommand(1, AllScenarios)

WorkerSpec == WorkerInit /\ [][WorkerNext]_vars

(***************************************************************************)
(* Properties.                                                             *)
(***************************************************************************)
BypassOff == env.devMode # Some("true")
Done(r) == auth[r].done
Parses(r) == ~Falsy(req[r].ts) /\ ParseInt(Val(req[r].ts)).ok
TsValue(r) == ParseInt(Val(req[r].ts)).val
Skew(r) == auth[r].at - TsValue(r)
InWindow(r) == Parses(r) /\ Skew(r) <= 300 /\ Skew(r) >= -300
BodyIsUtf8(r) == Utf8Decode(req[r].body).ok
\* the signature header is the reference signature of the request as sent
SignedWith(r, key) == req[r].sig = Some(RefSignature(key, Val(req[r].ts), req[r].body))

\* C1 as stated: with bypass off, a non-empty secret and a timestamp that
\* parses within the window, verification returns true exactly when the
\* signature is the reference signature of the timestamp string and raw body.
C1_Original ==
  \A r \in Reqs :
    (Done(r) /\ BypassOff /\ ~Falsy(env.secret) /\ InWindow(r))
      => (auth[r].result <=> SignedWith(r, Val(env.secret)))

\* C1 amended: the equivalence holds for every raw body that is valid UTF-8
\* (so a signed request is accepted when the clock equals the timestamp, and
\* a body or timestamp string changed after signing is rejected); a body that
\* is not valid UTF-8 is rejected whatever its signature.
C1_SignatureDecides ==
  \A r \in Reqs :
    (Done(r) /\ BypassOff /\ ~Falsy(env.secret) /\ InWindow(r))
      => /\ BodyIsUtf8(r) => (auth[r].result <=> SignedWith(r, Val(env.secret)))
         /\ ~BodyIsUtf8(r) => ~auth[r].result

\* a signed request with a multi-byte body is accepted at currentTime = timestamp
C1_Witness ==
  \E r \in Reqs :
    /\ Done(r) /\ BypassOff /\ ~Falsy(env.secret) /\ Parses(r) /\ Skew(r) = 0
    /\ req[r].body = BodyNonAscii
    /\ SignedWith(r, Val(env.secret))
    /\ auth[r].result

\* C2: with bypass off every request whose timestamp lies more than 300
\* seconds from the clock, in either direction, is rejected, signed or not;
\* within 300 seconds the window check is not what rejects, and a request
\* signed under the configured secret is accepted, 300 seconds included.
C2_ReplayWindow ==
  \A r \in Reqs :
    (Done(r) /\ BypassOff /\ Parses(r)) =>
      /\ (Skew(r) > 300 \/ Skew(r) < -300) => ~auth[r].result
      /\ InWindow(r) => auth[r].log # "Invalid timestamp"
      /\ (InWindow(r) /\ ~Falsy(env.secret) /\ BodyIsUtf8(r) /\ SignedWith(r, Val(env.secret)))
           => auth[r].result

\* a signed request is accepted with a timestamp exactly 300 seconds ahead
C2_Witness ==
  \E r \in Reqs :
    /\ Done(r) /\ BypassOff /\ Parses(r) /\ Skew(r) = -300
    /\ auth[r].result

\* C3: with bypass off and the signing secret empty or unset, every request
\* is rejected, even one signed under the empty key with a fresh timestamp.
C3_FailClosed ==
  \A r \in Reqs :
    (Done(r) /\ BypassOff /\ Falsy(env.secret)) => ~auth[r].result

\* a fresh request signed under the empty key is rejected for the missing secret
C3_Witness ==
  \E r \in Reqs :
    /\ Done(r) /\ BypassOff /\ env.secret = Some(<< >>)
    /\ InWindow(r) /\ BodyIsUtf8(r) /\ SignedWith(r, << >>)
    /\ ~auth[r].result
    /\ auth[r].log = "No signing secret found"

\* C4: with DEVELOPMENT_MODE = 'true' every request is verified true; without
\* it (unset by default, or any other value) no request takes the bypass
\* path, whatever its headers and body hold.
C4_BypassFromConfigOnly ==
  \A r \in Reqs :
    Done(r) =>
      /\ env.devMode = Some("true") => auth[r].result
      /\ env.devMode # Some("true") => auth[r].log # "Development mode enabled"
      /\ (env.devMode # Some("true") /\ auth[r].result) =>
           (~Falsy(env.secret) /\ InWindow(r) /\ SignedWith(r, Val(env.secret)))

\* with the bypass on, a request without timestamp and signature is accepted
C4_Witness ==
  \E r \in Reqs :
    /\ Done(r) /\ env.devMode = Some("true")
    /\ IsNone(req[r].ts) /\ IsNone(req[r].sig)
    /\ auth[r].result

\* C5: with bypass off, a missing or unparseable timestamp, a missing
\* signature, a missing secret, a signature mismatch and a stale timestamp all
\* make verify_slack_request return false without raising, and slack_handler
\* answers each with the same 403 response.
C5_UniformRejection ==
  \A r \in Reqs :
    Done(r) =>
      /\ ~auth[r].raised
      /\ ~auth[r].result => (resp[r] = Forbidden /\ pc[r] = "responded")
      /\ (BypassOff /\ ( \/ Falsy(req[r].ts)
                         \/ ~Parses(r)
                         \/ ~InWindow(r)
                         \/ Falsy(req[r].sig)
                         \/ Falsy(env.secret)
                         \/ ~SignedWith(r, Val(env.secret)) ))
           => ~auth[r].result

\* a timestamp that is not an integer is answered 403 like any other failure
C5_Witness ==
  \E r \in Reqs :
    /\ Done(r) /\ BypassOff
    /\ ~Falsy(req[r].ts) /\ ~Parses(r)
    /\ ~Falsy(req[r].sig)
    /\ auth[r].log = "Error in verify_slack_request"
    /\ resp[r] = Forbidden

Answered(r) == pc[r] = "responded"
\* the request's JSON body cannot be parsed, or is not an object
JsonUnusable(r) ==
  req[r].ctype = "json" /\ RequestJson(req[r]).kind \in {"invalid", "list"}
ChannelGiven(r) == ~Falsy(RequestForm(req[r]).channel_id)
SlackPosts(log) == {i \in 1..Len(log) : log[i].api = "slack"}
OkTexts == {"OK Branch created successfully", "OK chat reply", "OK Project created successfully"}

\* C6: under every interleaving of concurrent requests, a request has a
\* worker, a downstream call, a 200 or a challenge echo only if
\* verify_slack_request returned true for that very request; a request that
\* failed verification has its 403 and none of these.
C6_AuthBeforeDispatch ==
  \A r \in Reqs :
    /\ (worker[r] # "none" \/ calls[r] # << >> \/ resp[r].status = 200)
         => /\ Done(r)
            /\ auth[r].result
            /\ VerifySlackRequest(req[r], env, auth[r].at).result
    /\ (Done(r) /\ ~auth[r].result)
         => (resp[r] = Forbidden /\ worker[r] = "none" /\ calls[r] = << >>)

\* one request was rejected while another's worker made its downstream calls
C6_Witness ==
  \E r, q \in Reqs :
    /\ r # q
    /\ Done(r) /\ ~auth[r].result /\ resp[r] = Forbidden
    /\ auth[q].result /\ worker[q] = "finished" /\ calls[q] # << >>

\* C7 as stated: every request that passed verification is answered 200.
C7_Original ==
  \A r \in Reqs : (Answered(r) /\ auth[r].result) => resp[r].status = 200

\* C7 amended: a verified request is answered 200 as soon as its worker is
\* started, and that answer stands whatever the worker then meets; but a
\* verified request whose JSON body cannot be parsed or is not an object, or
\* whose thread cannot be started, is answered 500 and gets no worker.
C7_AcceptedThenAnswered ==
  \A r \in Reqs :
    /\ worker[r] # "none" => resp[r] = Processing
    /\ (Answered(r) /\ auth[r].result) =>
         /\ resp[r].status \in {200, 500}
         /\ resp[r] = Processing <=> worker[r] # "none"
         /\ resp[r].status = 500 => (worker[r] = "none" /\ calls[r] = << >>)
         /\ JsonUnusable(r) => resp[r] = InternalError

\* the command failed downstream and the request had been answered 200
C7_Witness ==
  \E r \in Reqs :
    /\ auth[r].result /\ resp[r] = Processing /\ worker[r] = "finished"
    /\ \E i \in 1..Len(calls[r]) : calls[r][i].api = "openai" /\ ~calls[r][i].ok

\* C8 as stated: while the signing secret or the bot token is absent, the
\* process serves no traffic: the webhook endpoint answers no request.
C8_Original ==
  (IsNone(env.secret) \/ ~env.botToken) =>
    \A r \in Reqs : resp[r] = NoResponse

\* C8 amended: an absent signing secret is not fatal: the process serves
\* anyway, and while the secret is absent and the bypass is off every webhook
\* request it answers is answered 403, with no worker and no downstream call.
C8_ServesAndRejects ==
  (Falsy(env.secret) /\ BypassOff) =>
    \A r \in Reqs :
      /\ Answered(r) => resp[r] = Forbidden
      /\ pc[r] \notin {"verified"}
      /\ worker[r] = "none" /\ calls[r] = << >>

\* the process serves without a signing secret and has answered a 403
C8_Witness ==
  /\ serving /\ IsNone(env.secret) /\ BypassOff
  /\ \E r \in Reqs : Answered(r) /\ resp[r] = Forbidden

\* C9: a dispatched command never ends in an uncaught exception; with a
\* channel_id it ends with a chat_postMessage attempted, which carries a
\* success text only if the call before it succeeded, and with an error post
\* attempted once if that post failed; and no request that failed is issued a
\* second time (each request to a downstream service is made at most once).
C9_UpstreamFailuresReported ==
  \A r \in Reqs :
    /\ worker[r] # "crashed"
    /\ (worker[r] = "finished" /\ ChannelGiven(r)) =>
         LET log == calls[r]
             posts == SlackPosts(log)
         IN  /\ posts # {}
             /\ \A i \in posts : log[i].arg # ""
             /\ \A i \in posts :
                  (log[i].arg \in OkTexts) => (i > 1 /\ log[i - 1].ok)
             /\ ~log[Len(log)].ok => Cardinality(posts) = 2
             /\ \A i, j \in 1..Len(log) :
                  (i < j /\ [log[i] EXCEPT !.ok = TRUE] = [log[j] EXCEPT !.ok = TRUE])
                    => FALSE
    /\ (worker[r] = "finished" /\ ~ChannelGiven(r)) => calls[r] = << >>

\* GitHub failed, the post of that error failed, and the error post was tried
C9_Witness ==
  \E r \in Reqs :
    /\ worker[r] = "finished"
    /\ Len(calls[r]) >= 3
    /\ calls[r][1].api = "github" /\ ~calls[r][1].ok
    /\ Cardinality(SlackPosts(calls[r])) = 2
    /\ ~calls[r][Len(calls[r])].ok

====
